---- MODULE Spec2Model ----
(***************************************************************************)
(* Model of CheckAssignIf (lib/checkassignif.cpp): the three analyses      *)
(* assignIf, comparison and multiCondition over a token stream with        *)
(* resolved variable ids, bracket links and the list of if-scopes.          *)
(***************************************************************************)
EXTENDS Integers, Sequences, FiniteSets, TLC

VARIABLES tokens, styleEnabled, findings, ran, pc, tok, tok2, scopeIt

vars == <<tokens, styleEnabled, findings, ran, pc, tok, tok2, scopeIt>>

(***************************************************************************)
(* Bounds of the model.                                                    *)
(***************************************************************************)
\* largest literal of the generated programs
MaxNum == 3
\* width of the two's complement arithmetic that stands for MathLib::bigint;
\* every literal of the model fits, so the bit operations agree with 64 bits
BigintBits == 6

\* the literals of the generated programs: one negative literal and 0 .. MaxNum
Nums == (0 - 1) .. MaxNum

(***************************************************************************)
(* MathLib::bigint bit operations (two's complement).                      *)
(***************************************************************************)
RECURSIVE Pow2(_)
Pow2(n) == IF n = 0 THEN 1 ELSE 2 * Pow2(n - 1)

ToUnsigned(a) == a % Pow2(BigintBits)

ToSigned(u) == IF u >= Pow2(BigintBits - 1) THEN u - Pow2(BigintBits) ELSE u

RECURSIVE NatAnd(_, _)
NatAnd(a, b) ==
    IF a = 0 \/ b = 0 THEN 0
    ELSE (a % 2) * (b % 2) + 2 * NatAnd(a \div 2, b \div 2)

RECURSIVE NatOr(_, _)
NatOr(a, b) ==
    IF a = 0 THEN b
    ELSE IF b = 0 THEN a
    ELSE (IF (a % 2) + (b % 2) > 0 THEN 1 ELSE 0) + 2 * NatOr(a \div 2, b \div 2)

BitAnd(a, b) == ToSigned(NatAnd(ToUnsigned(a), ToUnsigned(b)))

BitOr(a, b) == ToSigned(NatOr(ToUnsigned(a), ToUnsigned(b)))

(***************************************************************************)
(* Tokens.  A token has its text (str), its class, its variable id (0 when *)
(* it is not a resolved variable), its line and the index of its matching  *)
(* bracket (0 when it has none).  The text of a numeric literal is kept as *)
(* sign and magnitude; toLongNumber decodes it.                            *)
(***************************************************************************)
Sym(s) == [str |-> s, kind |-> "sym", varId |-> 0, neg |-> FALSE, mag |-> 0,
           linenr |-> 0, link |-> 0]

Name(s, id) == [str |-> s, kind |-> "name", varId |-> id, neg |-> FALSE, mag |-> 0,
                linenr |-> 0, link |-> 0]

Num(n) == [str |-> "<num>", kind |-> "num", varId |-> 0, neg |-> (n < 0),
           mag |-> IF n < 0 THEN 0 - n ELSE n, linenr |-> 0, link |-> 0]

toLongNumber(t) == IF t.neg THEN 0 - t.mag ELSE t.mag

\* Token::tokAt: the index n tokens away, 0 (null) outside the list
tokAt(toks, i, n) ==
    IF i = 0 THEN 0
    ELSE IF i + n >= 1 /\ i + n <= Len(toks) THEN i + n ELSE 0

\* Token::strAt: the text n tokens away, empty for null
strAt(toks, i, n) == IF tokAt(toks, i, n) = 0 THEN "" ELSE toks[tokAt(toks, i, n)].str

\* Token::next
next(toks, i) == tokAt(toks, i, 1)

\* Token::link / Token::linkAt
linkAt(toks, i, n) == IF tokAt(toks, i, n) = 0 THEN 0 ELSE toks[tokAt(toks, i, n)].link

(***************************************************************************)
(* Token::Match wildcards, anchored n tokens after token i.                *)
(***************************************************************************)
IsStr(toks, i, n, s) == tokAt(toks, i, n) # 0 /\ toks[tokAt(toks, i, n)].str = s

IsOneOf(toks, i, n, S) == tokAt(toks, i, n) # 0 /\ toks[tokAt(toks, i, n)].str \in S

IsVar(toks, i, n) == tokAt(toks, i, n) # 0 /\ toks[tokAt(toks, i, n)].kind = "name"

IsNum(toks, i, n) == tokAt(toks, i, n) # 0 /\ toks[tokAt(toks, i, n)].kind = "num"

IsVarid(toks, i, n, varid) ==
    tokAt(toks, i, n) # 0 /\ varid # 0 /\ toks[tokAt(toks, i, n)].varId = varid

IsAny(toks, i, n) == tokAt(toks, i, n) # 0

(***************************************************************************)
(* Findings handed to reportError.  cause is a history field: the token    *)
(* of the candidate (assignment or guarding if) that produced the finding. *)
(***************************************************************************)
assignIfError(t, result, cause) ==
    [id |-> "assignIfError", tok |-> t, result |-> result, bitop |-> "", value1 |-> 0,
     op |-> "", value2 |-> 0, line1 |-> 0, cause |-> cause]

comparisonError(t, bitop, value1, op, value2, result) ==
    [id |-> "comparisonError", tok |-> t, result |-> result, bitop |-> bitop,
     value1 |-> value1, op |-> op, value2 |-> value2, line1 |-> 0, cause |-> t]

multiConditionError(t, line1, cause) ==
    [id |-> "multiCondition", tok |-> t, result |-> FALSE, bitop |-> "", value1 |-> 0,
     op |-> "", value2 |-> 0, line1 |-> line1, cause |-> cause]

(***************************************************************************)
(* CheckAssignIf::assignIf                                                 *)
(***************************************************************************)
\* "[;{}] %var% = %var% [&|] %num% ;" anchored two tokens before the '='
assignIfMatchAssign(toks, t) ==
    LET a == tokAt(toks, t, -2) IN
    /\ IsOneOf(toks, a, 0, {";", "{", "}"})
    /\ IsVar(toks, a, 1)
    /\ IsStr(toks, a, 2, "=")
    /\ IsVar(toks, a, 3)
    /\ IsOneOf(toks, a, 4, {"&", "|"})
    /\ IsNum(toks, a, 5)
    /\ IsStr(toks, a, 6, ";")

\* the outer loop's tests: does the '=' at t open a forward scan
assignIfCandidate(toks, t) ==
    /\ toks[t].str = "="
    /\ assignIfMatchAssign(toks, t)
    /\ toks[t - 1].varId # 0
    /\ toLongNumber(toks[t + 3]) >= 0

\* the forward scan without the stop at an assignment
assignIfStopNoAssign(s) == s = "(" \/ s = "}"

\* the tokens that end the forward scan
assignIfStop(s) == s = "(" \/ s = "}" \/ s = "="

\* "if ( %varid% %any% %num% &&|%oror%|)"
assignIfMatchIf(toks, t2, varid) ==
    /\ IsStr(toks, t2, 0, "if")
    /\ IsStr(toks, t2, 1, "(")
    /\ IsVarid(toks, t2, 2, varid)
    /\ IsAny(toks, t2, 3)
    /\ IsNum(toks, t2, 4)
    /\ IsOneOf(toks, t2, 5, {"&&", "||", ")"})

\* the mismatch test with the operands of the two combinators exchanged
assignIfMismatchSwapped(bitop, num, num2) ==
    BitAnd(num, num2) # (IF bitop = "&" THEN num ELSE num2)

\* the mismatch test of both branches
assignIfMismatch(bitop, num, num2) ==
    BitAnd(num, num2) # (IF bitop = "&" THEN num2 ELSE num)

\* the findings of a matched comparison
assignIfCompare(toks, t, t2) ==
    LET bitop == strAt(toks, t, 2)
        num   == toLongNumber(toks[t + 3])
        op    == strAt(toks, t2, 3)
        num2  == toLongNumber(toks[t2 + 4])
    IN  IF op = "==" /\ assignIfMismatch(bitop, num, num2)
        THEN <<assignIfError(t2, FALSE, t)>>
        ELSE IF op = "!=" /\ assignIfMismatch(bitop, num, num2)
        THEN <<assignIfError(t2, TRUE, t)>>
        ELSE <<>>

\* one iteration of the inner loop at t2
assignIfInner(toks, t, t2) ==
    IF assignIfStop(toks[t2].str)
    THEN [stop |-> TRUE, out |-> <<>>]
    ELSE IF assignIfMatchIf(toks, t2, toks[t - 1].varId)
    THEN [stop |-> TRUE, out |-> assignIfCompare(toks, t, t2)]
    ELSE [stop |-> FALSE, out |-> <<>>]

\* the inner loop from t2 on
RECURSIVE assignIfScan(_, _, _)
assignIfScan(toks, t, t2) ==
    IF t2 = 0 THEN <<>>
    ELSE LET r == assignIfInner(toks, t, t2) IN
         IF r.stop THEN r.out ELSE assignIfScan(toks, t, next(toks, t2))

\* the outer loop from t on
RECURSIVE assignIfFrom(_, _)
assignIfFrom(toks, t) ==
    IF t = 0 THEN <<>>
    ELSE (IF assignIfCandidate(toks, t) THEN assignIfScan(toks, t, tokAt(toks, t, 4))
          ELSE <<>>) \o assignIfFrom(toks, next(toks, t))

assignIf(toks, enabled) == IF ~enabled THEN <<>> ELSE assignIfFrom(toks, tokAt(toks, 1, 0))

(***************************************************************************)
(* CheckAssignIf::comparison                                               *)
(***************************************************************************)
\* "&|%or% %num% )| ==|!= %num% &&|%oror%|)"
comparisonMatch(toks, t) ==
    /\ IsOneOf(toks, t, 0, {"&", "|"})
    /\ IsNum(toks, t, 1)
    /\ LET k == IF IsStr(toks, t, 2, ")") THEN 3 ELSE 2 IN
       /\ IsOneOf(toks, t, k, {"==", "!="})
       /\ IsNum(toks, t, k + 1)
       /\ IsOneOf(toks, t, k + 2, {"&&", "||", ")"})

\* the parenthesis test that accepts only an opening parenthesis before it
comparisonParOkOnlyPar(toks, cpar) ==
    IsStr(toks, tokAt(toks, linkAt(toks, cpar, 0), -1), 0, "(")

\* "(|%oror%|&&" at the token before the opening parenthesis
comparisonParOk(toks, cpar) ==
    IsOneOf(toks, tokAt(toks, linkAt(toks, cpar, 0), -1), 0, {"(", "||", "&&"})

\* the mismatch test with the OR case compared against the mask
comparisonMismatchOrMask(bitop, num1, num2) ==
    \/ bitop = "&" /\ BitAnd(num1, num2) # num2
    \/ bitop = "|" /\ BitOr(num1, num2) # num1

\* the mismatch test
comparisonMismatch(bitop, num1, num2) ==
    \/ bitop = "&" /\ BitAnd(num1, num2) # num2
    \/ bitop = "|" /\ BitOr(num1, num2) # num2

\* one iteration of the loop at t
comparisonAt(toks, t) ==
    IF ~comparisonMatch(toks, t) THEN <<>>
    ELSE LET num1 == toLongNumber(toks[t + 1])
             par  == toks[t + 2].str = ")"
             compareToken == IF par THEN t + 3 ELSE t + 2
             num2 == toLongNumber(toks[compareToken + 1])
             op   == toks[compareToken].str
         IN  IF num1 < 0 THEN <<>>
             ELSE IF par /\ ~comparisonParOk(toks, t + 2) THEN <<>>
             ELSE IF num2 < 0 THEN <<>>
             ELSE IF comparisonMismatch(toks[t].str, num1, num2)
             THEN <<comparisonError(t, toks[t].str, num1, op, num2, op # "==")>>
             ELSE <<>>

RECURSIVE comparisonFrom(_, _)
comparisonFrom(toks, t) ==
    IF t = 0 THEN <<>>
    ELSE comparisonAt(toks, t) \o comparisonFrom(toks, next(toks, t))

comparison(toks, enabled) == IF ~enabled THEN <<>> ELSE comparisonFrom(toks, tokAt(toks, 1, 0))

(***************************************************************************)
(* CheckAssignIf::multiCondition                                           *)
(***************************************************************************)
\* SymbolDatabase::scopeList restricted to what the check reads: one scope
\* per 'if' and per 'else' token, in token order
scopeList(toks) ==
    LET RECURSIVE From(_)
        From(i) ==
            IF i > Len(toks) THEN <<>>
            ELSE (IF toks[i].str = "if" THEN <<[type |-> "eIf", classDef |-> i]>>
                  ELSE IF toks[i].str = "else" THEN <<[type |-> "eElse", classDef |-> i]>>
                  ELSE <<>>) \o From(i + 1)
    IN From(1)

\* "if ( %var% & %num% ) {"
multiConditionMatchIf(toks, t) ==
    /\ IsStr(toks, t, 0, "if")
    /\ IsStr(toks, t, 1, "(")
    /\ IsVar(toks, t, 2)
    /\ IsStr(toks, t, 3, "&")
    /\ IsNum(toks, t, 4)
    /\ IsStr(toks, t, 5, ")")
    /\ IsStr(toks, t, 6, "{")

\* the tests that open a chain walk for a scope
multiConditionGuard(toks, scope) ==
    /\ scope.type = "eIf"
    /\ multiConditionMatchIf(toks, scope.classDef)
    /\ toks[scope.classDef + 2].varId # 0
    /\ toLongNumber(toks[scope.classDef + 4]) >= 0

\* "} else { if ("
multiConditionMatchElse(toks, t2) ==
    /\ IsStr(toks, t2, 0, "}")
    /\ IsStr(toks, t2, 1, "else")
    /\ IsStr(toks, t2, 2, "{")
    /\ IsStr(toks, t2, 3, "if")
    /\ IsStr(toks, t2, 4, "(")

\* tok2 after skipping the link's condition and if-block
multiConditionSkip(toks, opar) ==
    LET cpar == linkAt(toks, opar, 0) IN
    IF IsStr(toks, cpar, 0, ")") /\ IsStr(toks, cpar, 1, "{")
    THEN linkAt(toks, cpar, 1)
    ELSE cpar

\* "( %varid% ==|& %num% &&|%oror%|)"
multiConditionMatchCond(toks, opar, varid) ==
    /\ IsStr(toks, opar, 0, "(")
    /\ IsVarid(toks, opar, 1, varid)
    /\ IsOneOf(toks, opar, 2, {"==", "&"})
    /\ IsNum(toks, opar, 3)
    /\ IsOneOf(toks, opar, 4, {"&&", "||", ")"})

\* the subset test
multiConditionSubset(num1, num2) == BitAnd(num1, num2) = num2

\* the link check that cites the line of the link instead of the first if
multiConditionCheckOwnLine(toks, t, opar) ==
    IF multiConditionMatchCond(toks, opar, toks[t + 2].varId)
    THEN LET num1 == toLongNumber(toks[t + 4])
             num2 == toLongNumber(toks[opar + 3])
         IN  IF num2 < 0 THEN <<>>
             ELSE IF multiConditionSubset(num1, num2)
             THEN <<multiConditionError(opar, toks[opar].linenr, t)>>
             ELSE <<>>
    ELSE <<>>

\* the findings of the link whose '(' is opar
multiConditionCheck(toks, t, opar) ==
    IF multiConditionMatchCond(toks, opar, toks[t + 2].varId)
    THEN LET num1 == toLongNumber(toks[t + 4])
             num2 == toLongNumber(toks[opar + 3])
         IN  IF num2 < 0 THEN <<>>
             ELSE IF multiConditionSubset(num1, num2)
             THEN <<multiConditionError(opar, toks[t].linenr, t)>>
             ELSE <<>>
    ELSE <<>>

\* the iteration that leaves the walk at a negative mask2 (break for continue)
multiConditionLinkBreak(toks, t, t2) ==
    LET opar == tokAt(toks, t2, 4) IN
    [tok2 |-> IF multiConditionMatchCond(toks, opar, toks[t + 2].varId)
                 /\ toLongNumber(toks[opar + 3]) < 0
              THEN 0 ELSE multiConditionSkip(toks, opar),
     out |-> multiConditionCheck(toks, t, opar)]

\* the iteration that skips a negative mask2 before it has moved tok2
multiConditionLinkNoAdvance(toks, t, t2) ==
    LET opar == tokAt(toks, t2, 4) IN
    [tok2 |-> IF multiConditionMatchCond(toks, opar, toks[t + 2].varId)
                 /\ toLongNumber(toks[opar + 3]) < 0
              THEN t2 ELSE multiConditionSkip(toks, opar),
     out |-> multiConditionCheck(toks, t, opar)]

\* one iteration of the while loop at t2
multiConditionLink(toks, t, t2) ==
    LET opar == tokAt(toks, t2, 4) IN
    [tok2 |-> multiConditionSkip(toks, opar), out |-> multiConditionCheck(toks, t, opar)]

\* the while loop from t2 on
RECURSIVE multiConditionChain(_, _, _)
multiConditionChain(toks, t, t2) ==
    IF ~multiConditionMatchElse(toks, t2) THEN <<>>
    ELSE LET r == multiConditionLink(toks, t, t2) IN
         r.out \o multiConditionChain(toks, t, r.tok2)

\* the body of the loop over the scopes
multiConditionScope(toks, scope) ==
    IF multiConditionGuard(toks, scope)
    THEN multiConditionChain(toks, scope.classDef, linkAt(toks, scope.classDef, 6))
    ELSE <<>>

RECURSIVE multiConditionFrom(_, _, _)
multiConditionFrom(toks, scopes, i) ==
    IF i > Len(scopes) THEN <<>>
    ELSE multiConditionScope(toks, scopes[i]) \o multiConditionFrom(toks, scopes, i + 1)

multiCondition(toks, enabled) ==
    IF ~enabled THEN <<>> ELSE multiConditionFrom(toks, scopeList(toks), 1)

(***************************************************************************)
(* The analysed programs.  A program is written as lines of tokens; Build  *)
(* numbers the lines and links every bracket to its partner, as the        *)
(* tokenizer does.                                                         *)
(***************************************************************************)
RECURSIVE Flatten(_, _)
Flatten(lines, n) ==
    IF n > Len(lines) THEN <<>>
    ELSE [i \in 1..Len(lines[n]) |-> [lines[n][i] EXCEPT !.linenr = n]]
         \o Flatten(lines, n + 1)

RECURSIVE LinkFrom(_, _, _)
LinkFrom(toks, i, open) ==
    IF i > Len(toks) THEN toks
    ELSE IF toks[i].str \in {"(", "{"} THEN LinkFrom(toks, i + 1, <<i>> \o open)
    ELSE IF toks[i].str \in {")", "}"} /\ open # <<>>
    THEN LinkFrom([toks EXCEPT ![i].link = Head(open), ![Head(open)].link = i],
                  i + 1, Tail(open))
    ELSE LinkFrom(toks, i + 1, open)

Build(lines) == LinkFrom(Flatten(lines, 1), 1, <<>>)

X == Name("x", 1)
Y == Name("y", 2)
Z == Name("z", 3)
B == Name("b", 4)
U == Name("u", 0)
If == Name("if", 0)
Else == Name("else", 0)

\* statements placed between the masked assignment and the if
Mids ==
    { <<>>,
      <<Sym(";")>>,
      <<Z, Sym("++"), Sym(";")>>,
      <<X, Sym("++"), Sym(";")>>,
      <<X, Sym("|="), Num(1), Sym(";")>>,
      <<Name("f", 0), Sym("("), Sym(")"), Sym(";")>>,
      <<Sym("}"), Sym("{")>>,
      <<X, Sym("="), Num(0), Sym(";")>>,
      <<X, Sym("="), Y, Sym("&"), Num(1), Sym(";")>>,
      <<Z, Sym("="), Num(0), Sym(";")>> }

\* what follows the literal of a condition, up to its closing parenthesis
Ends ==
    { <<Sym(")")>>,
      <<Sym("&&"), B, Sym(")")>>,
      <<Sym("||"), B, Sym(")")>>,
      <<Sym("+"), Num(1), Sym(")")>> }

\* { var = y COMB m ; MID if ( ifvar CMP t END { } }
AssignProgram(var, comb, m, mid, ifvar, cmp, t, end) ==
    Build(<< <<Sym("{"), var, Sym("="), Y, Sym(comb), Num(m), Sym(";")>>,
             mid,
             <<If, Sym("("), ifvar, Sym(cmp), Num(t)>> \o end \o <<Sym("{"), Sym("}"), Sym("}")>> >>)

AssignPrograms ==
    { AssignProgram(X, comb, m, mid, X, cmp, t, <<Sym(")")>>) :
        comb \in {"&", "|"}, m \in Nums, mid \in Mids, cmp \in {"==", "!=", "<"}, t \in Nums }
    \cup
    { AssignProgram(var, comb, m, <<>>, ifvar, cmp, t, end) :
        var \in {X, U}, comb \in {"&", "|"}, m \in Nums, ifvar \in {X, Z},
        cmp \in {"==", "!="}, t \in Nums, end \in Ends }

\* the contexts of an inline expression: the tokens before and after it
Contexts ==
    { <<<<If, Sym("(")>>, <<Sym(")"), Sym("{"), Sym("}")>>>>,
      <<<<If, Sym("("), B, Sym("&&")>>, <<Sym(")"), Sym("{"), Sym("}")>>>>,
      <<<<If, Sym("("), B, Sym("||")>>, <<Sym("&&"), B, Sym(")"), Sym("{"), Sym("}")>>>>,
      <<<<If, Sym("(")>>, <<Sym("||"), B, Sym(")"), Sym("{"), Sym("}")>>>>,
      <<<<If, Sym("("), Sym("!")>>, <<Sym(")"), Sym("{"), Sym("}")>>>>,
      <<<<Name("return", 0)>>, <<Sym(";")>>>>,
      <<<<Name("return", 0)>>, <<Sym("&&"), B, Sym(";")>>>>,
      <<<<B, Sym("=")>>, <<Sym(";")>>>> }

\* PRE ( y COMB m ) CMP t POST   or   PRE y COMB m CMP t POST
InlineProgram(ctx, par, comb, m, cmp, t) ==
    Build(<< ctx[1]
             \o (IF par THEN <<Sym("("), Y, Sym(comb), Num(m), Sym(")")>>
                 ELSE <<Y, Sym(comb), Num(m)>>)
             \o <<Sym(cmp), Num(t)>> \o ctx[2] >>)

InlinePrograms ==
    { InlineProgram(ctx, par, comb, m, cmp, t) :
        ctx \in Contexts, par \in BOOLEAN, comb \in {"&", "|"}, m \in Nums,
        cmp \in {"==", "!=", "<"}, t \in Nums }

\* the conditions of the links of an else-if chain
LinkConds ==
    { <<X, Sym(op), Num(k)>> \o end :
        op \in {"==", "&"}, k \in Nums, end \in {<<Sym(")")>>, <<Sym("&&"), B, Sym(")")>>} }
    \cup { <<X, Sym("!="), Num(k), Sym(")")>> : k \in Nums }
    \cup { <<Z, Sym("&"), Num(k), Sym(")")>> : k \in Nums }

\* the conditions of the last link of a three-link chain
LastConds ==
    { <<X, Sym(op), Num(k), Sym(")")>> : op \in {"==", "&"}, k \in Nums }
    \cup { <<X, Sym("=="), Num(k), Sym("||"), B, Sym(")")>> : k \in Nums }

\* if ( var & m1 ) { }                      line 1
\* else { if ( c2 { }                       line 2
\* else { if ( c3 { } } }                   line 3
ChainProgram(var, m1, conds) ==
    Build(<< <<If, Sym("("), var, Sym("&"), Num(m1), Sym(")"), Sym("{"), Sym("}")>> >>
          \o [i \in 1..Len(conds) |->
                <<Else, Sym("{"), If, Sym("(")>> \o conds[i] \o <<Sym("{"), Sym("}")>>
                \o (IF i = Len(conds) THEN [j \in 1..Len(conds) |-> Sym("}")] ELSE <<>>)])

ChainPrograms ==
    { ChainProgram(X, m1, <<c2, c3>>) : m1 \in Nums, c2 \in LinkConds, c3 \in LastConds }
    \cup { ChainProgram(var, m1, <<c2>>) : var \in {X, U}, m1 \in Nums, c2 \in LinkConds }

Programs == AssignPrograms \cup InlinePrograms \cup ChainPrograms

(***************************************************************************)
(* The run of the three analyses over one program, each as one step.       *)
(***************************************************************************)
Init ==
    /\ tokens \in Programs
    /\ styleEnabled \in BOOLEAN
    /\ findings = <<>>
    /\ ran = {}
    /\ pc = "checks"
    /\ tok = 0
    /\ tok2 = 0
    /\ scopeIt = 0

AssignIf ==
    /\ pc = "checks"
    /\ "assignIf" \notin ran
    /\ ran' = ran \cup {"assignIf"}
    /\ findings' = findings \o assignIf(tokens, styleEnabled)
    /\ UNCHANGED <<tokens, styleEnabled, pc, tok, tok2, scopeIt>>

Comparison ==
    /\ pc = "checks"
    /\ "comparison" \notin ran
    /\ ran' = ran \cup {"comparison"}
    /\ findings' = findings \o comparison(tokens, styleEnabled)
    /\ UNCHANGED <<tokens, styleEnabled, pc, tok, tok2, scopeIt>>

MultiCondition ==
    /\ pc = "checks"
    /\ "multiCondition" \notin ran
    /\ ran' = ran \cup {"multiCondition"}
    /\ findings' = findings \o multiCondition(tokens, styleEnabled)
    /\ UNCHANGED <<tokens, styleEnabled, pc, tok, tok2, scopeIt>>

Next == AssignIf \/ Comparison \/ MultiCondition

Spec == Init /\ [][Next]_vars

TypeOK ==
    /\ ran \subseteq {"assignIf", "comparison", "multiCondition"}
    /\ \A i \in 1..Len(findings) : findings[i].tok \in 1..Len(tokens)

(***************************************************************************)
(* Vocabulary of the properties: the shapes of the analysed program, read  *)
(* off the token stream.                                                   *)
(***************************************************************************)
Pos == 1..Len(tokens)

Done(analysis) == styleEnabled /\ analysis \in ran

Str(i) == IF i \in Pos THEN tokens[i].str ELSE ""

IsLit(i) == i \in Pos /\ tokens[i].kind = "num"

Lit(i) == IF tokens[i].neg THEN 0 - tokens[i].mag ELSE tokens[i].mag

VarAt(i) == IF i \in Pos /\ tokens[i].kind = "name" THEN tokens[i].varId ELSE 0

Reported(kind, anchor) ==
    { k \in 1..Len(findings) : findings[k].id = kind /\ findings[k].tok = anchor }

ReportedFor(kind, cause) ==
    { k \in 1..Len(findings) : findings[k].id = kind /\ findings[k].cause = cause }

\* the '=' of a statement  var = var2 COMB mask ;  with a resolved var
MaskedAssign(i) ==
    /\ Str(i - 2) \in {";", "{", "}"}
    /\ VarAt(i - 1) # 0
    /\ Str(i) = "="
    /\ i + 1 \in Pos /\ tokens[i + 1].kind = "name"
    /\ Str(i + 2) \in {"&", "|"}
    /\ IsLit(i + 3)
    /\ Str(i + 4) = ";"

\* the 'if' of  if ( var CMP num2  ending in && || or ) , var that of the assignment at i
CandidateIf(i, j) ==
    /\ j > i + 4
    /\ Str(j) = "if"
    /\ Str(j + 1) = "("
    /\ VarAt(j + 2) = VarAt(i - 1)
    /\ j + 3 \in Pos
    /\ IsLit(j + 4)
    /\ Str(j + 5) \in {"&&", "||", ")"}

StopBetween(i, j) == \E k \in (i + 4)..(j - 1) : Str(k) \in {"(", "}", "="}

FirstCandidateIf(i, j) ==
    CandidateIf(i, j) /\ \A j0 \in (i + 5)..(j - 1) : ~CandidateIf(i, j0)

\* the equality-possibility rule: can  x2 COMB m  equal t
Impossible(comb, m, t) ==
    \/ comb = "&" /\ BitAnd(m, t) # t
    \/ comb = "|" /\ BitAnd(m, t) # m

(***************************************************************************)
(* C1: after assignIf has run, for every statement var = var2 COMB m ;     *)
(* with m >= 0 followed without a stop token by if ( var CMP t with CMP    *)
(* == or != and t >= 0, a finding is anchored at that if exactly when      *)
(* (COMB is & and (m & t) # t) or (COMB is | and (m & t) # m); it says     *)
(* always-false for == and always-true for !=.                             *)
(***************************************************************************)
C1_AssignIfRule ==
    Done("assignIf") =>
        \A i \in Pos : (MaskedAssign(i) /\ Lit(i + 3) >= 0) => \A j \in Pos :
            ( /\ CandidateIf(i, j) /\ ~StopBetween(i, j)
              /\ Str(j + 3) \in {"==", "!="} /\ Lit(j + 4) >= 0 )
            => /\ (Reported("assignIfError", j) # {})
                    <=> Impossible(Str(i + 2), Lit(i + 3), Lit(j + 4))
               /\ Cardinality(Reported("assignIfError", j)) <= 1
               /\ \A k \in Reported("assignIfError", j) :
                      findings[k].result = (Str(j + 3) = "!=")

C1_Witness ==
    /\ Done("assignIf")
    /\ \E i \in Pos, j \in Pos :
          /\ MaskedAssign(i) /\ Lit(i + 3) >= 0 /\ Str(i + 2) = "|"
          /\ CandidateIf(i, j) /\ ~StopBetween(i, j)
          /\ Str(j + 3) = "!=" /\ Lit(j + 4) >= 0
          /\ \E k \in Reported("assignIfError", j) : findings[k].result

(***************************************************************************)
(* C4: after assignIf has run, if an open parenthesis, a closing brace or  *)
(* an '=' lies between a masked assignment and the first candidate         *)
(* comparison of its variable, no finding is reported for that assignment, *)
(* whatever the mask and the compared literal.                             *)
(***************************************************************************)
C4_StopTokens ==
    Done("assignIf") =>
        \A i \in Pos : MaskedAssign(i) => \A j \in Pos :
            (FirstCandidateIf(i, j) /\ StopBetween(i, j))
            => ReportedFor("assignIfError", i) = {}

C4_Witness ==
    /\ Done("assignIf")
    /\ \E i \in Pos, j \in Pos :
          /\ MaskedAssign(i) /\ FirstCandidateIf(i, j) /\ StopBetween(i, j)
          /\ Lit(i + 3) >= 0 /\ Lit(j + 4) >= 0 /\ Str(j + 3) = "=="
          /\ Impossible(Str(i + 2), Lit(i + 3), Lit(j + 4))
          /\ \E k \in (i + 4)..(j - 1) : Str(k) = "="

(***************************************************************************)
(* The run-time values the analysed program can have: var2 ranges over     *)
(* Vals, and the statements between the assignment and the if act on var.  *)
(***************************************************************************)
Vals == 0..(2 * MaxNum + 1)

Apply(comb, a, b) == IF comb = "&" THEN BitAnd(a, b) ELSE BitOr(a, b)

\* the value of variable id after the statements at k .. j-1, from value v
RECURSIVE ExecBetween(_, _, _, _)
ExecBetween(k, j, id, v) ==
    IF k >= j THEN v
    ELSE IF VarAt(k) = id /\ Str(k + 1) = "++" THEN ExecBetween(k + 2, j, id, v + 1)
    ELSE IF VarAt(k) = id /\ Str(k + 1) = "|=" /\ IsLit(k + 2)
    THEN ExecBetween(k + 3, j, id, BitOr(v, Lit(k + 2)))
    ELSE ExecBetween(k + 1, j, id, v)

Holds(a, cmp, b) == IF cmp = "==" THEN a = b ELSE a # b

(***************************************************************************)
(* C9: every direct-assignment finding is sound: for every value of var2,  *)
(* the value var has at the if (after the statements between the masked    *)
(* assignment and the if) makes the comparison evaluate to the reported    *)
(* truth value.                                                            *)
(***************************************************************************)
C9_AssignIfSound ==
    Done("assignIf") =>
        \A k \in 1..Len(findings) :
            findings[k].id = "assignIfError" =>
                LET i == findings[k].cause
                    j == findings[k].tok
                IN  \A v2 \in Vals :
                        Holds(ExecBetween(i + 5, j, VarAt(i - 1),
                                          Apply(Str(i + 2), v2, Lit(i + 3))),
                              Str(j + 3), Lit(j + 4))
                        = findings[k].result

(***************************************************************************)
(* C3: no finding comes from a candidate with a negative literal: not from *)
(* a negative assignment mask or compared constant in assignIf, not from a *)
(* negative mask or constant in comparison, not from a negative mask1 or   *)
(* mask2 in multiCondition.                                                *)
(***************************************************************************)
C3_NegativeSuppresses ==
    \A k \in 1..Len(findings) :
        LET f == findings[k] IN
        /\ f.id = "assignIfError" => Lit(f.cause + 3) >= 0 /\ Lit(f.tok + 4) >= 0
        /\ f.id = "comparisonError" => f.value1 >= 0 /\ f.value2 >= 0
        /\ f.id = "multiCondition" => Lit(f.cause + 4) >= 0 /\ Lit(f.tok + 3) >= 0

(***************************************************************************)
(* C2: every else-if finding is sound: when a chained condition var ==     *)
(* mask2 or var & mask2 is reported always false against the guard         *)
(* if ( var & mask1 ), no value of var makes the guard false and the       *)
(* chained condition true.                                                 *)
(***************************************************************************)
C2_MultiConditionSound ==
    Done("multiCondition") =>
        \A k \in 1..Len(findings) :
            findings[k].id = "multiCondition" =>
                LET mask1 == Lit(findings[k].cause + 4)
                    op    == Str(findings[k].tok + 2)
                    mask2 == Lit(findings[k].tok + 3)
                IN  ~ \E v \in Vals :
                        /\ BitAnd(v, mask1) = 0
                        /\ IF op = "==" THEN v = mask2 ELSE BitAnd(v, mask2) # 0

(***************************************************************************)
(* Else-if chains, read off the token stream.                              *)
(***************************************************************************)
\* the 'if' of a guard  if ( var & mask1 ) {  with a resolved var and mask1 >= 0
Guard(g) ==
    /\ Str(g) = "if" /\ Str(g + 1) = "(" /\ VarAt(g + 2) # 0 /\ Str(g + 3) = "&"
    /\ IsLit(g + 4) /\ Lit(g + 4) >= 0 /\ Str(g + 5) = ")" /\ Str(g + 6) = "{"

\* the closing brace of the block of the if whose '(' is o (0 without a block)
BlockEnd(o) ==
    LET c == tokens[o].link IN
    IF c # 0 /\ Str(c + 1) = "{" THEN tokens[c + 1].link ELSE 0

\* the '(' of the links  else { if (  chained after the closing brace c, in order
RECURSIVE LinksAfter(_)
LinksAfter(c) ==
    IF c # 0 /\ Str(c) = "}" /\ Str(c + 1) = "else" /\ Str(c + 2) = "{"
       /\ Str(c + 3) = "if" /\ Str(c + 4) = "("
    THEN <<c + 4>> \o LinksAfter(BlockEnd(c + 4))
    ELSE <<>>

ChainOf(g) == LinksAfter(BlockEnd(g + 1))

\* the link at '(' o tests  var ==|& mask2  with mask2 >= 0, ending in && || or )
LinkTests(o, varid) ==
    /\ VarAt(o + 1) = varid /\ Str(o + 2) \in {"==", "&"}
    /\ IsLit(o + 3) /\ Lit(o + 3) >= 0 /\ Str(o + 4) \in {"&&", "||", ")"}

MultiFindings == SelectSeq(findings, LAMBDA f : f.id = "multiCondition")

(***************************************************************************)
(* C5: after multiCondition has run, every link of the else-if chain of a  *)
(* guard if ( var & mask1 ) { is reported for that guard exactly when it   *)
(* tests var with == or & against a non-negative mask2 and                 *)
(* (mask1 & mask2) = mask2; links of another shape, on another variable or *)
(* with a negative mask2 are not reported and later links are still        *)
(* evaluated.                                                              *)
(***************************************************************************)
C5_ChainWalk ==
    Done("multiCondition") =>
        \A g \in Pos :
            Guard(g) =>
                \A n \in 1..Len(ChainOf(g)) :
                    LET o == ChainOf(g)[n]
                        hits == { k \in ReportedFor("multiCondition", g) : findings[k].tok = o }
                    IN  /\ (hits # {}) <=>
                              /\ LinkTests(o, VarAt(g + 2))
                              /\ BitAnd(Lit(g + 4), Lit(o + 3)) = Lit(o + 3)
                        /\ Cardinality(hits) <= 1

\* a chain whose first link is not reported (negative mask2) and whose second is
C5_Witness ==
    /\ Done("multiCondition")
    /\ \E g \in Pos :
          /\ Guard(g) /\ Len(ChainOf(g)) = 2
          /\ IsLit(ChainOf(g)[1] + 3) /\ Lit(ChainOf(g)[1] + 3) < 0
          /\ \E k \in ReportedFor("multiCondition", g) : findings[k].tok = ChainOf(g)[2]

\* the first if of a three-link chain whose third link tests a subset of m1
\* and whose second link's mask is not a subset of m1
ThreeLinkChain(g) ==
    /\ Guard(g)
    /\ \A g0 \in 1..(g - 1) : Str(g0) # "if"
    /\ Len(ChainOf(g)) = 2
    /\ LET o2 == ChainOf(g)[1]
           o3 == ChainOf(g)[2]
       IN  /\ IsLit(o2 + 3)
           /\ BitAnd(Lit(g + 4), Lit(o2 + 3)) # Lit(o2 + 3)
           /\ LinkTests(o3, VarAt(g + 2))
           /\ BitAnd(Lit(g + 4), Lit(o3 + 3)) = Lit(o3 + 3)

\* the second link is itself a guard of the same variable whose mask covers m3
SecondLinkCovers(g) ==
    LET o2 == ChainOf(g)[1]
        o3 == ChainOf(g)[2]
    IN  /\ Guard(o2 - 1)
        /\ VarAt(o2 + 1) = VarAt(g + 2)
        /\ BitAnd(Lit(o2 + 3), Lit(o3 + 3)) = Lit(o3 + 3)

(***************************************************************************)
(* C6 as stated: for every such three-link chain one run of multiCondition *)
(* reports exactly one finding, anchored at the third link and citing the  *)
(* line of the first if.                                                   *)
(***************************************************************************)
C6_ExactlyOne ==
    Done("multiCondition") =>
        \A g \in Pos :
            ThreeLinkChain(g) =>
                /\ Len(MultiFindings) = 1
                /\ MultiFindings[1].tok = ChainOf(g)[2]
                /\ MultiFindings[1].line1 = tokens[g].linenr

(***************************************************************************)
(* C6 amended: for every such three-link chain one run of multiCondition   *)
(* reports exactly one finding for the scope of the first if, anchored at  *)
(* the third link and citing the line of the first if; every finding is    *)
(* anchored at the third link; and a second finding, citing the line of    *)
(* the second if, is reported exactly when the second link is itself       *)
(* if ( var & m2 ) { with m2 >= 0 and m3 a subset of m2.                   *)
(***************************************************************************)
C6_OnePerGuard ==
    Done("multiCondition") =>
        \A g \in Pos :
            ThreeLinkChain(g) =>
                LET o2 == ChainOf(g)[1]
                    o3 == ChainOf(g)[2]
                    first == ReportedFor("multiCondition", g)
                    second == ReportedFor("multiCondition", o2 - 1)
                IN  /\ Cardinality(first) = 1
                    /\ \A k \in first : findings[k].line1 = tokens[g].linenr
                    /\ \A n \in 1..Len(MultiFindings) : MultiFindings[n].tok = o3
                    /\ Len(MultiFindings) = Cardinality(first) + Cardinality(second)
                    /\ Cardinality(second) = IF SecondLinkCovers(g) THEN 1 ELSE 0
                    /\ \A k \in second : findings[k].line1 = tokens[o2 - 1].linenr

C6_Witness ==
    /\ Done("multiCondition")
    /\ \E g \in Pos : ThreeLinkChain(g) /\ SecondLinkCovers(g) /\ Len(MultiFindings) = 2

(***************************************************************************)
(* Inline masked comparisons, read off the token stream.                   *)
(***************************************************************************)
\* the '&' or '|' of a matched  COMB m [)] CMP t  with m, t >= 0; c is the
\* position of CMP
InlineAt(p, c) ==
    /\ Str(p) \in {"&", "|"} /\ IsLit(p + 1) /\ Lit(p + 1) >= 0
    /\ \/ c = p + 2
       \/ /\ c = p + 3 /\ Str(p + 2) = ")"
          /\ Str(tokens[p + 2].link - 1) \in {"(", "||", "&&"}
    /\ Str(c) \in {"==", "!="}
    /\ IsLit(c + 1) /\ Lit(c + 1) >= 0
    /\ Str(c + 2) \in {"&&", "||", ")"}

(***************************************************************************)
(* C7: after comparison has run, a matched COMB m [)] CMP t with m, t >= 0 *)
(* is reported exactly when (COMB is & and (m & t) # t) or (COMB is | and  *)
(* (m & t) # m), always-false for == and always-true for !=; and the       *)
(* code's test (m | t) # t agrees with (m & t) # m.                        *)
(***************************************************************************)
C7_ComparisonRule ==
    Done("comparison") =>
        /\ \A p \in Pos : Str(p) \in {"&", "|"} => \A c \in {p + 2, p + 3} :
              InlineAt(p, c) =>
                  /\ (Reported("comparisonError", p) # {})
                        <=> Impossible(Str(p), Lit(p + 1), Lit(c + 1))
                  /\ Cardinality(Reported("comparisonError", p)) <= 1
                  /\ \A k \in Reported("comparisonError", p) :
                        /\ findings[k].result = (Str(c) = "!=")
                        /\ findings[k].bitop = Str(p) /\ findings[k].op = Str(c)
                        /\ findings[k].value1 = Lit(p + 1) /\ findings[k].value2 = Lit(c + 1)
        /\ \A m \in 0..MaxNum, t \in 0..MaxNum :
              (BitOr(m, t) # t) <=> (BitAnd(m, t) # m)

C7_Witness ==
    /\ Done("comparison")
    /\ \E p \in Pos : /\ InlineAt(p, p + 3) /\ Str(p) = "|" /\ Str(p + 3) = "!="
                      /\ \E k \in Reported("comparisonError", p) : findings[k].result

\* the '&' of  ( X & m ) == t  with m, t >= 0 and t not a subset of m
ParenthesisedAnd(p) ==
    /\ Str(p - 2) = "(" /\ p - 1 \in Pos /\ tokens[p - 1].kind = "name"
    /\ Str(p) = "&" /\ IsLit(p + 1) /\ Lit(p + 1) >= 0
    /\ Str(p + 2) = ")" /\ Str(p + 3) = "=="
    /\ IsLit(p + 4) /\ Lit(p + 4) >= 0
    /\ BitAnd(Lit(p + 1), Lit(p + 4)) # Lit(p + 4)

ReportedFalse(p) == \E k \in Reported("comparisonError", p) : ~findings[k].result

(***************************************************************************)
(* C8 as stated: after comparison has run, ( X & m ) == t with m, t >= 0   *)
(* and t not a subset of m is reported always-false whatever precedes its  *)
(* opening parenthesis and whatever follows t.                             *)
(***************************************************************************)
C8_Anywhere ==
    Done("comparison") => \A p \in Pos : ParenthesisedAnd(p) => ReportedFalse(p)

(***************************************************************************)
(* C8 amended: after comparison has run, ( X & m ) == t with m, t >= 0 and *)
(* t not a subset of m is reported always-false whenever the token before  *)
(* its opening parenthesis is ( && or || and the token after t is && || or *)
(* ).                                                                      *)
(***************************************************************************)
C8_InContext ==
    Done("comparison") =>
        \A p \in Pos :
            ( /\ ParenthesisedAnd(p)
              /\ Str(p - 3) \in {"(", "&&", "||"}
              /\ Str(p + 5) \in {"&&", "||", ")"} )
            => ReportedFalse(p)

C8_Witness ==
    /\ Done("comparison")
    /\ \E p \in Pos : /\ ParenthesisedAnd(p) /\ Str(p - 3) = "||" /\ Str(p + 5) = "&&"
                      /\ ReportedFalse(p)

(***************************************************************************)
(* The same run, one loop iteration per step: assignIf, then comparison,   *)
(* then multiCondition, each with the position of its loops.               *)
(***************************************************************************)
StepPrograms ==
    { AssignProgram(X, "&", MaxNum, mid, X, "==", t, <<Sym(")")>>) : mid \in Mids, t \in Nums }
    \cup
    { InlineProgram(ctx, TRUE, "|", m, "!=", MaxNum) : ctx \in Contexts, m \in Nums }
    \cup
    { ChainProgram(X, MaxNum, <<c2, <<X, Sym("=="), Num(k), Sym(")")>> >>) :
        c2 \in LinkConds, k \in Nums }

InitSteps ==
    /\ tokens \in StepPrograms
    /\ styleEnabled \in BOOLEAN
    /\ findings = <<>>
    /\ ran = {}
    /\ pc = "assignIf"
    /\ tok = tokAt(tokens, 1, 0)
    /\ tok2 = 0
    /\ scopeIt = 0

\* one iteration of assignIf's loop over the tokens
AssignIfStep ==
    /\ pc = "assignIf"
    /\ IF ~styleEnabled \/ tok = 0
       THEN /\ pc' = "comparison"
            /\ ran' = ran \cup {"assignIf"}
            /\ tok' = tokAt(tokens, 1, 0)
            /\ tok2' = 0
       ELSE IF assignIfCandidate(tokens, tok)
       THEN /\ pc' = "assignIfScan"
            /\ tok2' = tokAt(tokens, tok, 4)
            /\ UNCHANGED <<tok, ran>>
       ELSE /\ tok' = next(tokens, tok)
            /\ UNCHANGED <<pc, tok2, ran>>
    /\ UNCHANGED <<tokens, styleEnabled, findings, scopeIt>>

\* one iteration of assignIf's forward scan
AssignIfScanStep ==
    /\ pc = "assignIfScan"
    /\ IF tok2 = 0
       THEN /\ pc' = "assignIf"
            /\ tok' = next(tokens, tok)
            /\ UNCHANGED <<tok2, findings>>
       ELSE LET r == assignIfInner(tokens, tok, tok2) IN
            IF r.stop
            THEN /\ findings' = findings \o r.out
                 /\ pc' = "assignIf"
                 /\ tok' = next(tokens, tok)
                 /\ tok2' = 0
            ELSE /\ tok2' = next(tokens, tok2)
                 /\ UNCHANGED <<pc, tok, findings>>
    /\ UNCHANGED <<tokens, styleEnabled, ran, scopeIt>>

\* one iteration of comparison's loop over the tokens
ComparisonStep ==
    /\ pc = "comparison"
    /\ IF ~styleEnabled \/ tok = 0
       THEN /\ pc' = "multiCondition"
            /\ ran' = ran \cup {"comparison"}
            /\ scopeIt' = 1
            /\ tok' = 0
            /\ UNCHANGED findings
       ELSE /\ findings' = findings \o comparisonAt(tokens, tok)
            /\ tok' = next(tokens, tok)
            /\ UNCHANGED <<pc, ran, scopeIt>>
    /\ UNCHANGED <<tokens, styleEnabled, tok2>>

\* one iteration of multiCondition's loop over the scopes
MultiConditionStep ==
    /\ pc = "multiCondition"
    /\ IF ~styleEnabled \/ scopeIt > Len(scopeList(tokens))
       THEN /\ pc' = "done"
            /\ ran' = ran \cup {"multiCondition"}
            /\ UNCHANGED <<tok, tok2, scopeIt>>
       ELSE IF multiConditionGuard(tokens, scopeList(tokens)[scopeIt])
       THEN /\ pc' = "multiConditionChain"
            /\ tok' = scopeList(tokens)[scopeIt].classDef
            /\ tok2' = linkAt(tokens, scopeList(tokens)[scopeIt].classDef, 6)
            /\ UNCHANGED <<ran, scopeIt>>
       ELSE /\ scopeIt' = scopeIt + 1
            /\ UNCHANGED <<pc, ran, tok, tok2>>
    /\ UNCHANGED <<tokens, styleEnabled, findings>>

\* one iteration of multiCondition's walk along the else-if chain
MultiConditionChainStep ==
    /\ pc = "multiConditionChain"
    /\ IF ~multiConditionMatchElse(tokens, tok2)
       THEN /\ pc' = "multiCondition"
            /\ scopeIt' = scopeIt + 1
            /\ tok' = 0
            /\ tok2' = 0
            /\ UNCHANGED findings
       ELSE LET r == multiConditionLink(tokens, tok, tok2) IN
            /\ findings' = findings \o r.out
            /\ tok2' = r.tok2
            /\ UNCHANGED <<pc, tok, scopeIt>>
    /\ UNCHANGED <<tokens, styleEnabled, ran>>

NextSteps ==
    \/ AssignIfStep
    \/ AssignIfScanStep
    \/ ComparisonStep
    \/ MultiConditionStep
    \/ MultiConditionChainStep

\* the analyses run sequentially to completion: a step that can be taken is taken
SpecSteps == InitSteps /\ [][NextSteps]_vars /\ WF_vars(NextSteps)

\* the stepwise run reports what the analyses report as a whole
StepsAgree ==
    pc = "done" =>
        findings = assignIf(tokens, styleEnabled) \o comparison(tokens, styleEnabled)
                   \o multiCondition(tokens, styleEnabled)

Advance(i) == IF i < Len(tokens) THEN i + 1 ELSE 0

(***************************************************************************)
(* C10: every run of the three analyses over a finite token stream with    *)
(* well-formed bracket links reaches its end; assignIf's scans and         *)
(* comparison's scan move one token per iteration, and every iteration of  *)
(* multiCondition's chain walk moves tok2 to a later closing bracket, also *)
(* when the link is skipped for a negative mask2.                          *)
(***************************************************************************)
C10_Terminates ==
    /\ <>(pc = "done")
    /\ [][ /\ (pc = "assignIf" /\ pc' = "assignIf") => tok' = Advance(tok)
           /\ (pc = "assignIfScan" /\ pc' = "assignIfScan") => tok2' = Advance(tok2)
           /\ (pc = "assignIfScan" /\ pc' = "assignIf") => tok' = Advance(tok)
           /\ (pc = "comparison" /\ pc' = "comparison") => tok' = Advance(tok)
           /\ (pc = "multiConditionChain" /\ pc' = "multiConditionChain")
                 => tok2' > tok2 /\ tokens[tok2'].str \in {")", "}"} ]_vars

\* the run has ended on a chain whose first link has a negative mask2
C10_Witness ==
    /\ pc = "done" /\ styleEnabled
    /\ \E g \in Pos :
          /\ Guard(g) /\ Len(ChainOf(g)) = 2
          /\ LinkTests(ChainOf(g)[2], VarAt(g + 2))
          /\ VarAt(ChainOf(g)[1] + 1) = VarAt(g + 2)
          /\ IsLit(ChainOf(g)[1] + 3) /\ Lit(ChainOf(g)[1] + 3) < 0

====
